---- MODULE Spec2Model ----
(***************************************************************************)
(* A state-machine model of notebooks/example-workflows/plot-2mt.ipynb:    *)
(* the code cells of the notebook, run top to bottom, one action per cell. *)
(* A Python name that is not bound yet is None (the empty tuple) and a     *)
(* bound name is Some(value).                                              *)
(***************************************************************************)
EXTENDS Integers, Sequences, FiniteSets, TLC

VARIABLES
    pc,               \* the step that runs next, or "done" / "error"
    err,              \* the exception that stopped the run, "none" while running
    installed,        \* environment: what importlib.metadata knows of zarr
    grid,             \* environment: the archive's array values (hundredths of a kelvin)
    store,            \* environment: the units attribute of the archive's data array
                      \* and the length of its dimension arrays
    date, hour, var, level, url1, url2,
    package_version, major_version,
    sessions,         \* the S3FileSystem objects created so far, in creation order
    fs, file1, file2,
    ds,
    HRRR_proj, projData,
    airTemp, x, y,
    quicklook,        \* the figure airTemp.plot drew, the output of its cell
    loads,            \* the calls that made dask load chunk data, in order
    minTemp, maxTemp, fint,
    fig

vars == <<pc, err, installed, grid, store, date, hour, var, level, url1, url2,
          package_version, major_version, sessions, fs, file1, file2, ds,
          HRRR_proj, projData, airTemp, x, y, quicklook, loads, minTemp, maxTemp,
          fint, fig>>

(***************************************************************************)
(* Bounds of the model.                                                    *)
(***************************************************************************)
MaxVerLen == 3        \* longest version string of the resolver specification
GridCells == 2        \* number of grid points of the archive's array
TempLo == 6           \* the level specification explores -TempLo .. TempHi degrees C
TempHi == 11

None == <<>>
Some(v) == <<v>>
Get(o) == o[1]

Min(S) == CHOOSE m \in S : \A n \in S : m <= n
Max(S) == CHOOSE m \in S : \A n \in S : m >= n

(***************************************************************************)
(* Python string helpers.  The URLs are built from ASCII literals and are  *)
(* TLA+ strings.  The version text comes from the environment and may hold *)
(* any character, so it is a sequence of Unicode code points.              *)
(***************************************************************************)
CharAt(s, i) == SubSeq(s, i, i)

\* s[n:]
SliceFrom(s, n) == SubSeq(s, n + 1, Len(s))

\* the printable ASCII characters in code point order: the space (32) to the
\* underscore (95), and the small letters (97) to the tilde (126)
AsciiLow == " !\"#$%&'()*+,-./0123456789:;<=>?@ABCDEFGHIJKLMNOPQRSTUVWXYZ[\\]^_"
AsciiHigh == "abcdefghijklmnopqrstuvwxyz{|}~"

\* ord(c) of one of these characters
Ord(c) ==
    IF \E i \in 1..Len(AsciiLow) : CharAt(AsciiLow, i) = c
    THEN 31 + (CHOOSE i \in 1..Len(AsciiLow) : CharAt(AsciiLow, i) = c)
    ELSE 96 + (CHOOSE i \in 1..Len(AsciiHigh) : CharAt(AsciiHigh, i) = c)

\* the code points of an ASCII literal
Text(s) == [i \in 1..Len(s) |-> Ord(CharAt(s, i))]

\* s.split(".")[0]: everything before the first dot, the whole text if none
SplitDotFirst(s) ==
    LET dots == {i \in 1..Len(s) : s[i] = Ord(".")}
    IN  IF dots = {} THEN s ELSE SubSeq(s, 1, Min(dots) - 1)

\* the code point of the digit zero of every script with decimal digits
\* (general category Nd); the nine that follow it are the digits 1 to 9
DecimalZeros ==
    {48, 1632, 1776, 1984, 2406, 2534, 2662, 2790, 2918, 3046, 3174, 3302, 3430,
     3558, 3664, 3792, 3872, 4160, 4240, 6112, 6160, 6470, 6608, 6784, 6800, 6992,
     7088, 7232, 7248, 42528, 43216, 43264, 43472, 43504, 43600, 44016, 65296,
     66720, 68912, 69734, 69872, 69942, 70096, 70384, 70736, 70864, 71248, 71360,
     71472, 71904, 72016, 72784, 73040, 73120, 92768, 92864, 93008, 120782,
     120792, 120802, 120812, 120822, 123200, 123632, 125264, 130032}

\* the characters int() reads as decimal digits
Digits == UNION {z..(z + 9) : z \in DecimalZeros}

DigitVal(c) == c - (CHOOSE z \in DecimalZeros : z <= c /\ c <= z + 9)

\* the characters int() ignores around the number
Blanks ==
    {9, 10, 11, 12, 13, 32, 133, 160, 5760, 8232, 8233, 8239, 8287, 12288}
        \cup (8192..8202)

\* str.strip() as int() applies it: leading and trailing whitespace goes
RECURSIVE LStrip(_)
LStrip(s) == IF Len(s) > 0 /\ s[1] \in Blanks THEN LStrip(SliceFrom(s, 1)) ELSE s

RECURSIVE RStrip(_)
RStrip(s) ==
    IF Len(s) > 0 /\ s[Len(s)] \in Blanks THEN RStrip(SubSeq(s, 1, Len(s) - 1)) ELSE s

\* the digit part of an integer literal: digits, single underscores between digits
DigitsOk(t) ==
    /\ Len(t) > 0
    /\ t[1] \in Digits
    /\ t[Len(t)] \in Digits
    /\ \A i \in 1..Len(t) : t[i] \in Digits \cup {Ord("_")}
    /\ \A i \in 1..(Len(t) - 1) : ~(t[i] = Ord("_") /\ t[i + 1] = Ord("_"))

RECURSIVE DigitsValue(_, _)
DigitsValue(t, acc) ==
    IF Len(t) = 0 THEN acc
    ELSE IF t[1] = Ord("_") THEN DigitsValue(SliceFrom(t, 1), acc)
    ELSE DigitsValue(SliceFrom(t, 1), 10 * acc + DigitVal(t[1]))

\* the digits from the first one that is not a zero on; they carry the value
Significant(t) ==
    LET nz == {i \in 1..Len(t) : t[i] # Ord("_") /\ DigitVal(t[i]) # 0}
    IN  IF nz = {} THEN <<>> ELSE SubSeq(t, Min(nz), Len(t))

\* sys.get_int_max_str_digits(): int() refuses a text with more digits
MaxStrDigits == 4300

\* the digits int() counts against the limit: underscores are left out
DigitCount(t) == Cardinality({i \in 1..Len(t) : t[i] # Ord("_")})

\* int(s) in base 10: Some(n), or None where Python raises ValueError
PyInt(s) ==
    LET t == RStrip(LStrip(s))
        signed == Len(t) > 0 /\ t[1] \in {Ord("+"), Ord("-")}
        body == IF signed THEN SliceFrom(t, 1) ELSE t
        neg == signed /\ t[1] = Ord("-")
    IN  IF ~DigitsOk(body) \/ DigitCount(body) > MaxStrDigits THEN None
        ELSE Some(IF neg THEN 0 - DigitsValue(Significant(body), 0)
                  ELSE DigitsValue(Significant(body), 0))

(***************************************************************************)
(* The configuration the URL cell assigns.  The notebook writes one value  *)
(* of each; the reader is invited to change them, so each is drawn from a  *)
(* small set that holds the notebook's value.                              *)
(***************************************************************************)
Dates == {"20210214", "20210215"}
Hours == {"12", "00"}
VarCodes == {"TMP", "DPT", "XYZ"}
LevelCodes == {"2m_above_ground", "surface"}

\* a url2 that ignores the configured hour
Url2OfFixedHour(d, h, v, l) ==
    "s3://hrrrzarr/sfc/" \o d \o "/" \o d \o "_12z_anl.zarr/" \o l \o "/" \o v

Url2Of(d, h, v, l) ==
    "s3://hrrrzarr/sfc/" \o d \o "/" \o d \o "_" \o h \o "z_anl.zarr/" \o l \o "/" \o v

\* a url1 that stops one directory short
Url1OfNoLevel(d, h, v, l) ==
    "s3://hrrrzarr/sfc/" \o d \o "/" \o d \o "_" \o h \o "z_anl.zarr/" \o l \o "/" \o v

Url1Of(d, h, v, l) ==
    "s3://hrrrzarr/sfc/" \o d \o "/" \o d \o "_" \o h \o "z_anl.zarr/" \o l \o "/" \o v
        \o "/" \o l

(***************************************************************************)
(* The store-version resolver.                                             *)
(***************************************************************************)
\* the zarr package of the environment: whether importlib.metadata finds its
\* distribution, what version() returns for it (a text or, when the metadata
\* has no Version header, Python's None), and whether the module imports
NotInstalled == [found |-> FALSE, version |-> None, importable |-> FALSE]
NoVersionHeader == [found |-> TRUE, version |-> None, importable |-> TRUE]
Installed(t, imp) == [found |-> TRUE, version |-> Some(t), importable |-> imp]

\* a parse that falls back to 0 where int() raises
MajorVersionOrZero(v) ==
    IF PyInt(SplitDotFirst(v)) = None THEN Some(0) ELSE PyInt(SplitDotFirst(v))

\* major_version = int(package_version.split(".")[0])
MajorVersionOf(v) == PyInt(SplitDotFirst(v))

\* a test that takes every later major version for version 3
IsV3AtLeast(major) == major >= 3

\* the test of the if statement
IsV3(major) == major = 3

\* a slice one character longer, which eats the first letter of the bucket
StripPrefixLong(url) == SliceFrom(url, 6)

\* url[5:], the slice that drops the leading 's3://'
StripPrefix(url) == SliceFrom(url, 5)

\* a legacy branch that signs its requests
NewFileSystemSigned(major) == [anon |-> IsV3(major), asynchronous |-> IsV3(major)]

\* s3fs.S3FileSystem(anon=True, asynchronous=...) of either branch
NewFileSystem(major) == [anon |-> TRUE, asynchronous |-> IsV3(major)]

\* the store handle of either branch; s is the index of the filesystem object
NewHandle(major, s, url) ==
    IF IsV3(major)
    THEN [kind |-> "FsspecStore", fs |-> s, path |-> StripPrefix(url)]
    ELSE [kind |-> "S3Map", fs |-> s, path |-> url]

(***************************************************************************)
(* The archive.  The bucket holds, for every date and hour, one group per  *)
(* level and variable with the dimension arrays, and one directory below   *)
(* it the group with the variable's data array.                            *)
(***************************************************************************)
ArchiveFields == {<<"TMP", "2m_above_ground">>, <<"TMP", "surface">>,
                  <<"DPT", "2m_above_ground">>}

CoordArrays == {[name |-> "projection_x_coordinate", role |-> "coord"],
                [name |-> "projection_y_coordinate", role |-> "coord"]}

\* the units attribute a store gives the data array.  The archive's TMP is in
\* kelvin; Pa stands for a unit that is no temperature
UnitsAttrs == {"K", "Pa"}

\* of these, the units pint converts to degC
ConvertibleToDegC == {"K"}

\* what a store says of a field: the units attribute of the data array, and
\* the length of the dimension arrays in the group above it, which in the
\* archive is the length of the data array
Stores ==
    {[units |-> u, coordLen |-> n] : u \in UnitsAttrs, n \in {GridCells, GridCells + 1}}

ArchiveStore == [units |-> "K", coordLen |-> GridCells]

\* the exception of a merge whose dimension sizes conflict: a ValueError,
\* which later xarray releases raise as its subclass AlignmentError
MergeErrors == {"ValueError", "AlignmentError"}

\* the key of the group that holds the dimension arrays of a field, and of
\* the group one directory below it that holds the data array
CoordKey(d, h, f) ==
    "hrrrzarr/sfc/" \o d \o "/" \o d \o "_" \o h \o "z_anl.zarr/" \o f[2] \o "/" \o f[1]

DataKey(d, h, f) == CoordKey(d, h, f) \o "/" \o f[2]

ArchiveGroups ==
    {[key |-> DataKey(d, h, f), arrays |-> {[name |-> f[1], role |-> "data"]}] :
        d \in Dates, h \in Hours, f \in ArchiveFields}
    \cup
    {[key |-> CoordKey(d, h, f), arrays |-> CoordArrays] :
        d \in Dates, h \in Hours, f \in ArchiveFields}

\* the bucket and key a path names: s3fs drops a leading protocol
StripProtocol(p) ==
    IF Len(p) >= 5 /\ SubSeq(p, 1, 5) = "s3://" THEN SliceFrom(p, 5) ELSE p

\* a lookup that takes a missing group for an empty one
ArraysAtLenient(handle) ==
    LET hits == {g \in ArchiveGroups : g.key = StripProtocol(handle.path)}
    IN  IF hits = {} THEN Some({}) ELSE Some((CHOOSE g \in hits : TRUE).arrays)

\* the arrays of the group a handle points at, None if there is no such group
ArraysAt(handle) ==
    LET hits == {g \in ArchiveGroups : g.key = StripProtocol(handle.path)}
    IN  IF hits = {} THEN None ELSE Some((CHOOSE g \in hits : TRUE).arrays)

\* the two handles passed in the other order
AssembleSwapped(f1, f2) ==
    {[name |-> a.name, role |-> a.role, from |-> 2] : a \in Get(ArraysAt(f1))}
    \cup
    {[name |-> a.name, role |-> a.role, from |-> 1] : a \in Get(ArraysAt(f2))}

\* xr.open_mfdataset([f1, f2]): the variables of both groups, each tagged
\* with the position in the list of the handle it was read from
Assemble(f1, f2) ==
    {[name |-> a.name, role |-> a.role, from |-> 1] : a \in Get(ArraysAt(f1))}
    \cup
    {[name |-> a.name, role |-> a.role, from |-> 2] : a \in Get(ArraysAt(f2))}

(***************************************************************************)
(* Temperatures are fixed-point numbers, counted in hundredths of a degree.*)
(* The contour levels are whole degrees and are kept as integers.          *)
(***************************************************************************)
Hundredths == 100
KelvinOffset == 27315

KelvinSamples == {26785, 28095, 28315, 28365}

\* a conversion that relabels the unit and leaves the values in kelvin
ToDegCRelabel(k) == k

\* convert_units('degC') of a value in kelvin
ToDegC(k) == k - KelvinOffset

\* np.floor and np.ceil, in whole degrees
Floor(v) == v \div Hundredths
Ceil(v) == 0 - ((0 - v) \div Hundredths)

\* a range that includes its stop value
ArangeInclusive(start, stop, step) ==
    LET n == IF stop >= start THEN (stop - start) \div step + 1 ELSE 0
    IN  [i \in 1..n |-> start + (i - 1) * step]

\* np.arange(start, stop, step) for step > 0
Arange(start, stop, step) ==
    LET n == IF stop > start THEN (stop - start + step - 1) \div step ELSE 0
    IN  [i \in 1..n |-> start + (i - 1) * step]

\* levels without the padding of the stop value
ContourLevelsNoPad(mn, mx) == Arange(Floor(mn), Ceil(mx), 2)

\* levels padded by one instead of two
ContourLevelsPad1(mn, mx) == Arange(Floor(mn), Ceil(mx) + 1, 2)

\* fint = np.arange(np.floor(minTemp.values), np.ceil(maxTemp.values) + 2, 2)
ContourLevels(mn, mx) == Arange(Floor(mn), Ceil(mx) + 2, 2)

SeqMin(s) == Min({s[i] : i \in 1..Len(s)})
SeqMax(s) == Max({s[i] : i \in 1..Len(s)})

\* an extraction that asks for the configured variable code
ExtractedNameConfigured == Get(var)

\* the variable the extraction cell asks the dataset for: ds.TMP
ExtractedName == "TMP"

\* the values of the variable array, once dask computes them
ValuesOf(arr, g) ==
    IF arr.units = "degC" THEN [i \in 1..Len(g) |-> ToDegC(g[i])] ELSE g

\* the projection parameters the metadata endpoint serves, every one in
\* tenths of its unit (degrees, metres)
ProjParamSets ==
    {[lat_0 |-> 385, lat_1 |-> 385, lat_2 |-> 385, lon_0 |-> 2625,
      a |-> 63712290, b |-> 63712290],
     [lat_0 |-> 381, lat_1 |-> 330, lat_2 |-> 450, lon_0 |-> 2650,
      a |-> 63781370, b |-> 63567523]}

RECURSIVE TwoTo(_)
TwoTo(k) == IF k = 0 THEN 1 ELSE 2 * TwoTo(k - 1)

\* the float32 nearest to (num / den) * 2^e, for num, den > 0: a mantissa m of
\* 24 bits and an exponent, the value being m * 2^e; ties go to the even m
RECURSIVE Float32Of(_, _, _)
Float32Of(num, den, e) ==
    IF num \div den >= TwoTo(24) THEN Float32Of(num, 2 * den, e + 1)
    ELSE IF num \div den < TwoTo(23) THEN Float32Of(2 * num, den, e - 1)
    ELSE LET q == num \div den
             r == num % den
             m == IF 2 * r > den \/ (2 * r = den /\ q % 2 = 1) THEN q + 1 ELSE q
         IN  IF m = TwoTo(24) THEN [m |-> TwoTo(23), e |-> e + 1] ELSE [m |-> m, e |-> e]

\* .astype('float32') of a value of t tenths
AsFloat32(t) ==
    IF t = 0 THEN [m |-> 0, e |-> 0]
    ELSE IF t < 0 THEN [m |-> 0 - Float32Of(0 - t, 10, 0).m, e |-> Float32Of(0 - t, 10, 0).e]
    ELSE Float32Of(t, 10, 0)

\* a projection whose globe is given the semi-major axis alone, the semi-minor
\* axis falling back to the default ellipsoid's
LambertConformalDefaultMinor(p) ==
    [central_longitude |-> AsFloat32(p.lon_0), central_latitude |-> AsFloat32(p.lat_0),
     standard_parallels |-> <<AsFloat32(p.lat_1), AsFloat32(p.lat_2)>>,
     globe |-> [semimajor_axis |-> AsFloat32(p.a), semiminor_axis |-> AsFloat32(63567523)]]

\* the six parameters cast to float32, then
\* ccrs.LambertConformal(..., globe=ccrs.Globe(semimajor_axis=a, semiminor_axis=b))
LambertConformal(p) ==
    [central_longitude |-> AsFloat32(p.lon_0), central_latitude |-> AsFloat32(p.lat_0),
     standard_parallels |-> <<AsFloat32(p.lat_1), AsFloat32(p.lat_2)>>,
     globe |-> [semimajor_axis |-> AsFloat32(p.a), semiminor_axis |-> AsFloat32(p.b)]]

(***************************************************************************)
(* The cells.                                                              *)
(***************************************************************************)
\* a failure that is recorded while the cell stays next in line, to be retried
FailRetry(e) == pc' = pc /\ err' = e

\* an exception leaves the cell and ends the run
Fail(e) == pc' = "error" /\ err' = e

\* date, hour, var, level, url1, url2
UrlCell ==
    /\ pc = "urls"
    /\ \E d \in Dates, h \in Hours, v \in VarCodes, l \in LevelCodes :
        /\ date' = Some(d) /\ hour' = Some(h) /\ var' = Some(v) /\ level' = Some(l)
        /\ url1' = Some(Url1Of(d, h, v, l))
        /\ url2' = Some(Url2Of(d, h, v, l))
    /\ pc' = "resolve"
    /\ UNCHANGED <<err, installed, grid, store, quicklook, package_version,
                   major_version, sessions, fs, file1, file2, ds, HRRR_proj, projData,
                   airTemp, x, y, loads, minTemp, maxTemp, fint, fig>>

\* the store-version resolver cell.  version() raises when zarr is not
\* installed; None has no split(); int() raises on a malformed first
\* component; the version-3 branch imports zarr before it creates anything
ResolverCell ==
    /\ pc = "resolve"
    /\ IF ~installed.found
       THEN /\ Fail("PackageNotFoundError")
            /\ UNCHANGED <<package_version, major_version, sessions, fs, file1, file2>>
       ELSE /\ package_version' = Some(installed.version)
            /\ IF installed.version = None
               THEN /\ Fail("AttributeError")
                    /\ UNCHANGED <<major_version, sessions, fs, file1, file2>>
               ELSE LET parsed == MajorVersionOf(Get(installed.version))
                        s == Len(sessions) + 1
                    IN  IF parsed = None
                        THEN /\ Fail("ValueError")
                             /\ UNCHANGED <<major_version, sessions, fs, file1, file2>>
                        ELSE /\ major_version' = parsed
                             /\ IF IsV3(Get(parsed)) /\ ~installed.importable
                                THEN /\ Fail("ModuleNotFoundError")
                                     /\ UNCHANGED <<sessions, fs, file1, file2>>
                                ELSE /\ sessions' =
                                            Append(sessions, NewFileSystem(Get(parsed)))
                                     /\ fs' = Some(s)
                                     /\ file1' = Some(NewHandle(Get(parsed), s, Get(url1)))
                                     /\ file2' = Some(NewHandle(Get(parsed), s, Get(url2)))
                                     /\ pc' = "open"
                                     /\ UNCHANGED err
    /\ UNCHANGED <<installed, grid, store, quicklook, date, hour, var, level, url1,
                   url2, ds, HRRR_proj, projData, airTemp, x, y, loads, minTemp,
                   maxTemp, fint, fig>>

\* ds = xr.open_mfdataset([file1, file2], engine='zarr'): the engine is looked
\* up first and is unknown when the zarr module does not import; both groups
\* are opened, then merged, and the merge refuses dimension arrays whose
\* length is not the length of the data array
OpenCell ==
    /\ pc = "open"
    /\ IF ~installed.importable
       THEN /\ Fail("ValueError")
            /\ UNCHANGED ds
       ELSE \/ /\ ArraysAt(Get(file1)) # None /\ ArraysAt(Get(file2)) # None
               /\ store.coordLen = Len(grid)
               /\ ds' = Some(Assemble(Get(file1), Get(file2)))
               /\ pc' = "projfetch"
               /\ UNCHANGED err
            \/ /\ ArraysAt(Get(file1)) # None /\ ArraysAt(Get(file2)) # None
               /\ store.coordLen # Len(grid)
               /\ \E e \in MergeErrors : Fail(e)
               /\ UNCHANGED ds
            \/ /\ (ArraysAt(Get(file1)) = None \/ ArraysAt(Get(file2)) = None)
               /\ Fail("FileNotFoundError")
               /\ UNCHANGED ds
            \/ /\ Fail("ConnectionError")
               /\ UNCHANGED ds
    /\ UNCHANGED <<installed, grid, store, quicklook, date, hour, var, level, url1,
                   url2, package_version, major_version, sessions, fs, file1, file2,
                   HRRR_proj, projData, airTemp, x, y, loads, minTemp, maxTemp, fint,
                   fig>>

\* HRRR_proj = pd.read_json(...)
ProjFetchCell ==
    /\ pc = "projfetch"
    /\ \/ /\ \E p \in ProjParamSets : HRRR_proj' = Some(p)
          /\ pc' = "proj"
          /\ UNCHANGED err
       \/ /\ Fail("ConnectionError")
          /\ UNCHANGED HRRR_proj
    /\ UNCHANGED <<installed, grid, store, quicklook, date, hour, var, level, url1,
                   url2, package_version, major_version, sessions, fs, file1, file2, ds,
                   projData, airTemp, x, y, loads, minTemp, maxTemp, fint, fig>>

\* lat_0 ... b, projData
ProjCell ==
    /\ pc = "proj"
    /\ projData' = Some(LambertConformal(Get(HRRR_proj)))
    /\ pc' = "extract"
    /\ UNCHANGED <<err, installed, grid, store, quicklook, date, hour, var, level, url1,
                   url2, package_version, major_version, sessions, fs, file1, file2, ds,
                   HRRR_proj, airTemp, x, y, loads, minTemp, maxTemp, fint, fig>>

\* airTemp = ds.TMP, with the units attribute the store gives the array
ExtractCell ==
    /\ pc = "extract"
    /\ IF \E a \in Get(ds) : a.name = ExtractedName /\ a.role = "data"
       THEN /\ airTemp' = Some([name |-> ExtractedName, units |-> store.units])
            /\ pc' = "convert"
            /\ UNCHANGED err
       ELSE /\ Fail("AttributeError")
            /\ UNCHANGED airTemp
    /\ UNCHANGED <<installed, grid, store, quicklook, date, hour, var, level, url1,
                   url2, package_version, major_version, sessions, fs, file1, file2, ds,
                   HRRR_proj, projData, x, y, loads, minTemp, maxTemp, fint, fig>>

\* airTemp = airTemp.metpy.convert_units('degC'): pint checks the units when
\* the conversion is set up, before any value is read
ConvertCell ==
    /\ pc = "convert"
    /\ IF Get(airTemp).units \in ConvertibleToDegC
       THEN /\ airTemp' = Some([Get(airTemp) EXCEPT !.units = "degC"])
            /\ pc' = "xy"
            /\ UNCHANGED err
       ELSE /\ Fail("DimensionalityError")
            /\ UNCHANGED airTemp
    /\ UNCHANGED <<installed, grid, store, quicklook, date, hour, var, level, url1,
                   url2, package_version, major_version, sessions, fs, file1, file2, ds,
                   HRRR_proj, projData, x, y, loads, minTemp, maxTemp, fint, fig>>

\* x = airTemp.projection_x_coordinate; y = airTemp.projection_y_coordinate
XYCell ==
    /\ pc = "xy"
    /\ x' = Some("projection_x_coordinate")
    /\ y' = Some("projection_y_coordinate")
    /\ pc' = "quickplot"
    /\ UNCHANGED <<err, installed, grid, store, quicklook, date, hour, var, level, url1,
                   url2, package_version, major_version, sessions, fs, file1, file2, ds,
                   HRRR_proj, projData, airTemp, loads, minTemp, maxTemp, fint, fig>>

\* the figure of airTemp.plot(figsize=(11,8.5)), a figure of its own: the
\* array as a colour mesh, with a colorbar
QuickLook(arr) == [field |-> arr, colorbar |-> TRUE]

\* airTemp.plot(figsize=(11,8.5)): xarray computes the array, so dask loads
\* the values, and then makes the figure and draws on it
QuickPlotCell ==
    /\ pc = "quickplot"
    /\ \/ /\ loads' = Append(loads, "quickplot")
          /\ quicklook' = Some(QuickLook(Get(airTemp)))
          /\ pc' = "lazymin"
          /\ UNCHANGED err
       \/ /\ Fail("ConnectionError")
          /\ UNCHANGED <<loads, quicklook>>
    /\ UNCHANGED <<installed, grid, store, date, hour, var, level, url1, url2,
                   package_version, major_version, sessions, fs, file1, file2, ds,
                   HRRR_proj, projData, airTemp, x, y, minTemp, maxTemp, fint, fig>>

\* a min() that computes at once, as on an array that is not dask-backed
LazyMinCellEager ==
    /\ pc = "lazymin"
    /\ loads' = Append(loads, "lazymin")
    /\ pc' = "reduce"
    /\ UNCHANGED <<err, installed, grid, store, quicklook, date, hour, var, level, url1,
                   url2, package_version, major_version, sessions, fs, file1, file2, ds,
                   HRRR_proj, projData, airTemp, x, y, minTemp, maxTemp, fint, fig>>

\* airTemp.min(): builds a task graph and shows it, nothing is bound or loaded
LazyMinCell ==
    /\ pc = "lazymin"
    /\ pc' = "reduce"
    /\ UNCHANGED <<err, installed, grid, store, quicklook, date, hour, var, level, url1,
                   url2, package_version, major_version, sessions, fs, file1, file2, ds,
                   HRRR_proj, projData, airTemp, x, y, loads, minTemp, maxTemp, fint,
                   fig>>

\* minTemp = airTemp.min().compute(): the first blocking load of the cell
ComputeMin ==
    /\ pc = "reduce"
    /\ \/ /\ minTemp' = Some(SeqMin(ValuesOf(Get(airTemp), grid)))
          /\ loads' = Append(loads, "min")
          /\ pc' = "reduce_max"
          /\ UNCHANGED err
       \/ /\ Fail("ConnectionError")
          /\ UNCHANGED <<minTemp, loads>>
    /\ UNCHANGED <<installed, grid, store, quicklook, date, hour, var, level, url1,
                   url2, package_version, major_version, sessions, fs, file1, file2, ds,
                   HRRR_proj, projData, airTemp, x, y, maxTemp, fint, fig>>

\* maxTemp = airTemp.max().compute(): the second blocking load, with minTemp
\* bound while it waits
ComputeMax ==
    /\ pc = "reduce_max"
    /\ \/ /\ maxTemp' = Some(SeqMax(ValuesOf(Get(airTemp), grid)))
          /\ loads' = Append(loads, "max")
          /\ pc' = "levels"
          /\ UNCHANGED err
       \/ /\ Fail("ConnectionError")
          /\ UNCHANGED <<maxTemp, loads>>
    /\ UNCHANGED <<installed, grid, store, quicklook, date, hour, var, level, url1,
                   url2, package_version, major_version, sessions, fs, file1, file2, ds,
                   HRRR_proj, projData, airTemp, x, y, minTemp, fint, fig>>

\* the reduction cell: its two statements, one step each
ReduceCell == ComputeMin \/ ComputeMax

\* fint = np.arange(...)
LevelsCell ==
    /\ pc = "levels"
    /\ fint' = Some(ContourLevels(Get(minTemp), Get(maxTemp)))
    /\ pc' = "render"
    /\ UNCHANGED <<err, installed, grid, store, quicklook, date, hour, var, level, url1,
                   url2, package_version, major_version, sessions, fs, file1, file2, ds,
                   HRRR_proj, projData, airTemp, x, y, loads, minTemp, maxTemp, fig>>

\* fig = plt.figure(...) with its axes and title, before contourf is called
BareFigure ==
    [projection |-> Get(projData), hour |-> Get(hour), date |-> Get(date),
     field |-> None, levels |-> None, colorbar |-> FALSE]

\* the map cell up to the call of contourf: the figure, its axes and title
MakeFigure ==
    /\ pc = "render"
    /\ fig' = Some(BareFigure)
    /\ pc' = "contourf"
    /\ UNCHANGED <<err, installed, grid, store, quicklook, date, hour, var, level, url1,
                   url2, package_version, major_version, sessions, fs, file1, file2, ds,
                   HRRR_proj, projData, airTemp, x, y, loads, minTemp, maxTemp, fint>>

\* contourf waits for the array, loads it and refuses fewer than two levels;
\* the colorbar comes last.  A failure leaves fig as MakeFigure bound it.
FillContours ==
    /\ pc = "contourf"
    /\ \/ /\ Len(Get(fint)) >= 2
          /\ fig' = Some([Get(fig) EXCEPT !.field = airTemp, !.levels = fint,
                                           !.colorbar = TRUE])
          /\ loads' = Append(loads, "render")
          /\ pc' = "done"
          /\ UNCHANGED err
       \/ /\ Len(Get(fint)) < 2
          /\ loads' = Append(loads, "render")
          /\ Fail("ValueError")
          /\ UNCHANGED fig
       \/ /\ Fail("ConnectionError")
          /\ UNCHANGED <<fig, loads>>
    /\ UNCHANGED <<installed, grid, store, quicklook, date, hour, var, level, url1,
                   url2, package_version, major_version, sessions, fs, file1, file2, ds,
                   HRRR_proj, projData, airTemp, x, y, minTemp, maxTemp, fint>>

\* the map cell: what precedes the blocking call, and the call with the rest
RenderCell == MakeFigure \/ FillContours

(***************************************************************************)
(* The whole notebook, run from the top.                                   *)
(***************************************************************************)
SampleVersions == {Text("3.0.8"), Text("2.18.3"), Text("4.0.0"), Text("")}

\* the environments a run may find
SampleInstalls ==
    {Installed(v, imp) : v \in SampleVersions, imp \in BOOLEAN}
        \cup {NotInstalled, NoVersionHeader}

Unbound ==
    /\ err = "none"
    /\ date = None /\ hour = None /\ var = None /\ level = None
    /\ url1 = None /\ url2 = None
    /\ package_version = None /\ major_version = None
    /\ sessions = <<>> /\ fs = None /\ file1 = None /\ file2 = None
    /\ ds = None /\ HRRR_proj = None /\ projData = None
    /\ airTemp = None /\ x = None /\ y = None /\ quicklook = None /\ loads = <<>>
    /\ minTemp = None /\ maxTemp = None /\ fint = None /\ fig = None

Init ==
    /\ pc = "urls"
    /\ installed \in SampleInstalls
    /\ grid \in [1..GridCells -> KelvinSamples]
    /\ store \in Stores
    /\ Unbound

Next ==
    \/ UrlCell \/ ResolverCell \/ OpenCell \/ ProjFetchCell \/ ProjCell
    \/ ExtractCell \/ ConvertCell \/ XYCell \/ QuickPlotCell \/ LazyMinCell
    \/ ReduceCell \/ LevelsCell \/ RenderCell

Spec == Init /\ [][Next]_vars

(***************************************************************************)
(* The resolver cell alone, over every short version string.  The run has  *)
(* reached the resolver with the configuration the notebook writes.        *)
(***************************************************************************)
\* ASCII digits, the dot, a letter, the signs, the underscore, the space, and
\* three characters from outside ASCII's printable range: the tab (9), the
\* no-break space (160) and the Arabic-Indic digit three (1635)
VerAlphabet ==
    {Ord(c) : c \in {"0", "2", "3", "4", ".", "a", "-", "+", "_", " "}}
        \cup {9, 160, 1635}

RECURSIVE Versions(_)
Versions(n) ==
    IF n = 0 THEN {<<>>}
    ELSE Versions(n - 1) \cup {Append(s, c) : s \in Versions(n - 1), c \in VerAlphabet}

NotebookDate == "20210214"
NotebookHour == "12"
NotebookVar == "TMP"
NotebookLevel == "2m_above_ground"

\* what the URL cell binds when it runs as written
UrlsBound ==
    /\ date = Some(NotebookDate) /\ hour = Some(NotebookHour)
    /\ var = Some(NotebookVar) /\ level = Some(NotebookLevel)
    /\ url1 = Some(Url1Of(NotebookDate, NotebookHour, NotebookVar, NotebookLevel))
    /\ url2 = Some(Url2Of(NotebookDate, NotebookHour, NotebookVar, NotebookLevel))

InitResolver ==
    /\ pc = "resolve"
    /\ err = "none"
    /\ installed \in {Installed(v, imp) : v \in Versions(MaxVerLen), imp \in BOOLEAN}
                         \cup {NotInstalled, NoVersionHeader}
    /\ grid \in [1..GridCells -> {Max(KelvinSamples)}]
    /\ store = ArchiveStore
    /\ UrlsBound
    /\ package_version = None /\ major_version = None
    /\ sessions = <<>> /\ fs = None /\ file1 = None /\ file2 = None
    /\ ds = None /\ HRRR_proj = None /\ projData = None
    /\ airTemp = None /\ x = None /\ y = None /\ quicklook = None /\ loads = <<>>
    /\ minTemp = None /\ maxTemp = None /\ fint = None /\ fig = None

NextResolver == ResolverCell

SpecResolver == InitResolver /\ [][NextResolver]_vars

(***************************************************************************)
(* The reduction and level cells alone, over every pair of extremes in a   *)
(* range of temperatures, a tenth of a degree apart.  The run has reached  *)
(* the reduction as the notebook is written, under zarr 3.                 *)
(***************************************************************************)
WideKelvin == {KelvinOffset + 10 * t : t \in (0 - 10 * TempLo)..(10 * TempHi)}

NotebookVersion == Text("3.0.8")

InitLevels ==
    /\ pc = "reduce"
    /\ err = "none"
    /\ installed = Installed(NotebookVersion, TRUE)
    /\ \E lo \in WideKelvin, hi \in WideKelvin :
        /\ lo <= hi
        /\ grid = [i \in 1..GridCells |-> IF i = 1 THEN lo ELSE hi]
    /\ store = ArchiveStore
    /\ UrlsBound
    /\ package_version = Some(Some(NotebookVersion))
    /\ major_version = MajorVersionOf(NotebookVersion)
    /\ sessions = <<NewFileSystem(Get(major_version))>>
    /\ fs = Some(1)
    /\ file1 = Some(NewHandle(Get(major_version), 1, Get(url1)))
    /\ file2 = Some(NewHandle(Get(major_version), 1, Get(url2)))
    /\ ds = Some(Assemble(Get(file1), Get(file2)))
    /\ HRRR_proj = Some(CHOOSE p \in ProjParamSets : p.a = p.b)
    /\ projData = Some(LambertConformal(Get(HRRR_proj)))
    /\ airTemp = Some([name |-> ExtractedName, units |-> "degC"])
    /\ x = Some("projection_x_coordinate")
    /\ y = Some("projection_y_coordinate")
    /\ quicklook = Some(QuickLook(Get(airTemp)))
    /\ loads = <<"quickplot">>
    /\ minTemp = None /\ maxTemp = None /\ fint = None /\ fig = None

NextLevels == ReduceCell \/ LevelsCell

SpecLevels == InitLevels /\ [][NextLevels]_vars

(***************************************************************************)
(* Properties of the store-version resolver.                               *)
(***************************************************************************)
\* the branch the resolver took, read off the handle it built
BranchTaken ==
    IF file1 = None THEN (IF err = "ModuleNotFoundError" THEN "v3" ELSE "none")
    ELSE IF Get(file1).kind = "FsspecStore" THEN "v3" ELSE "legacy"

\* the text has an ASCII letter in it
HasLetter(s) == \E i \in 1..Len(s) : s[i] \in (Ord("A")..Ord("Z")) \cup (Ord("a")..Ord("z"))

\* C1: every parseable version whose leading integer is >= 3 selects the v3
\* branch, and every parseable version whose leading integer is < 3 selects
\* the legacy branch.
C1_AtLeast3SelectsV3 ==
    (pc # "resolve" /\ major_version # None) =>
        /\ (Get(major_version) >= 3 => BranchTaken = "v3")
        /\ (Get(major_version) < 3 => BranchTaken = "legacy")

\* C2: the v3 branch is taken exactly when the parsed major version is 3; it
\* drops "s3://" from both URLs and opens both handles on a filesystem made
\* with asynchronous=True.  Every other parsed major version opens both
\* handles as S3Map on a filesystem made with asynchronous=False and passes
\* the URLs unchanged.  Only the v3 branch imports zarr: where the module
\* does not import, it is major version 3 alone that stops there, with no
\* filesystem and no handle of either kind.
C2_V3ExactlyWhenMajorIs3 ==
    (pc # "resolve" /\ major_version # None) =>
        IF Get(major_version) = 3 /\ ~installed.importable
        THEN /\ pc = "error" /\ err = "ModuleNotFoundError"
             /\ sessions = <<>> /\ fs = None /\ file1 = None /\ file2 = None
        ELSE /\ err # "ModuleNotFoundError"
             /\ fs # None /\ file1 # None /\ file2 # None
             /\ Get(file1).fs = Get(fs) /\ Get(file2).fs = Get(fs)
             /\ IF Get(major_version) = 3
                THEN /\ Get(file1).kind = "FsspecStore" /\ Get(file2).kind = "FsspecStore"
                     /\ "s3://" \o Get(file1).path = Get(url1)
                     /\ "s3://" \o Get(file2).path = Get(url2)
                     /\ sessions[Get(fs)].asynchronous = TRUE
                ELSE /\ Get(file1).kind = "S3Map" /\ Get(file2).kind = "S3Map"
                     /\ Get(file1).path = Get(url1)
                     /\ Get(file2).path = Get(url2)
                     /\ sessions[Get(fs)].asynchronous = FALSE

C2_Witness ==
    /\ pc = "open" /\ major_version = Some(3) /\ installed = Installed(Text("3.0"), TRUE)
    /\ BranchTaken = "v3"

\* C3: a malformed version string (the empty string, a first component with a
\* letter in it, anything int() rejects) stops the resolver with a parse
\* error: no branch is taken, no filesystem and no handle is created.
C3_MalformedFailsWithParseError ==
    (/\ pc # "resolve"
     /\ installed.found /\ installed.version # None
     /\ \/ Get(installed.version) = Text("")
        \/ HasLetter(SplitDotFirst(Get(installed.version)))
        \/ PyInt(SplitDotFirst(Get(installed.version))) = None) =>
        /\ pc = "error" /\ err = "ValueError"
        /\ BranchTaken = "none"
        /\ major_version = None
        /\ sessions = <<>> /\ fs = None /\ file1 = None /\ file2 = None

C3_Witness ==
    /\ pc = "error" /\ installed = Installed(Text(""), TRUE)
    /\ package_version = Some(Some(Text("")))

(***************************************************************************)
(* Properties of the handles and of the dataset built from them.           *)
(***************************************************************************)
\* C4: in either branch both handles are bound to an anonymous session and
\* to the same filesystem object; no handle is ever bound to a session that
\* is not anonymous.
C4_HandlesAnonymousAndShared ==
    /\ \A i \in 1..Len(sessions) : sessions[i].anon = TRUE
    /\ (file1 # None \/ file2 # None) =>
        /\ file1 # None /\ file2 # None /\ fs # None
        /\ Get(file1).fs = Get(file2).fs
        /\ Get(file1).fs = Get(fs)
        /\ Get(fs) \in 1..Len(sessions)
        /\ sessions[Get(file1).fs].anon = TRUE
        /\ sessions[Get(file2).fs].anon = TRUE

C4_Witness ==
    /\ pc = "open" /\ BranchTaken = "legacy" /\ major_version = Some(2)
    /\ Get(file2).fs = 1 /\ sessions[1].anon

\* C5: the first object reference is
\* s3://hrrrzarr/sfc/<date>/<date>_<hour>z_anl.zarr/<level>/<variable>/<level>
\* and the second is the same without the trailing /<level>; the notebook's
\* configuration gives the two paths the specification quotes.
C5_ObjectReferences ==
    url1 # None =>
        /\ url2 # None
        /\ Get(url2) = "s3://hrrrzarr/sfc/" \o Get(date) \o "/" \o Get(date) \o "_"
                        \o Get(hour) \o "z_anl.zarr/" \o Get(level) \o "/" \o Get(var)
        /\ Get(url1) = "s3://hrrrzarr/sfc/" \o Get(date) \o "/" \o Get(date) \o "_"
                        \o Get(hour) \o "z_anl.zarr/" \o Get(level) \o "/" \o Get(var)
                        \o "/" \o Get(level)
        /\ (/\ date = Some("20210214") /\ hour = Some("12")
            /\ var = Some("TMP") /\ level = Some("2m_above_ground")) =>
            /\ Get(url1) = "s3://hrrrzarr/sfc/"
                   \o "20210214/20210214_12z_anl.zarr/2m_above_ground/TMP/2m_above_ground"
            /\ Get(url2) = "s3://hrrrzarr/sfc/"
                   \o "20210214/20210214_12z_anl.zarr/2m_above_ground/TMP"

C5_Witness ==
    /\ pc = "resolve"
    /\ date = Some("20210214") /\ hour = Some("12")
    /\ var = Some("TMP") /\ level = Some("2m_above_ground")
    /\ url1 # None /\ url2 # None

\* C6: once the resolver has run, in either branch, the path of the first
\* handle is the path of the second followed by "/" and the level code, so
\* both handles name the same date, hour, variable and level.
C6_HandlesNameSameField ==
    file1 # None =>
        /\ file2 # None
        /\ Get(file1).path = Get(file2).path \o "/" \o Get(level)
        /\ StripProtocol(Get(file2).path) =
               "hrrrzarr/sfc/" \o Get(date) \o "/" \o Get(date) \o "_" \o Get(hour)
                   \o "z_anl.zarr/" \o Get(level) \o "/" \o Get(var)

C6_Witness ==
    /\ pc = "open" /\ BranchTaken = "v3" /\ hour = Some("00")
    /\ level = Some("surface") /\ file2 # None

\* C7 as stated: the coordinate variables of the combined dataset come from
\* the first handle passed to the merge, the data variable from the second.
C7_CoordsFromFirstDataFromSecond ==
    ds # None =>
        \A a \in Get(ds) : /\ (a.role = "coord" => a.from = 1)
                            /\ (a.role = "data" => a.from = 2)

\* C7 amended: the data variable of the combined dataset comes from the first
\* handle passed to the merge (file1, one directory down), the coordinate
\* variables from the second (file2).
C7_DataFromFirstCoordsFromSecond ==
    ds # None =>
        /\ \E a \in Get(ds) : a.role = "data"
        /\ \E a \in Get(ds) : a.role = "coord"
        /\ \A a \in Get(ds) : /\ (a.role = "data" => a.from = 1 /\ a.name = Get(var))
                               /\ (a.role = "coord" => a.from = 2)

C7_Witness ==
    /\ pc = "projfetch" /\ ds # None
    /\ [name |-> "TMP", role |-> "data", from |-> 1] \in Get(ds)
    /\ [name |-> "projection_x_coordinate", role |-> "coord", from |-> 2] \in Get(ds)

(***************************************************************************)
(* Properties of the contour levels.  A level L is a whole number of       *)
(* degrees; L is floor(v) iff L <= v < L + 1 and ceil(v) iff L - 1 < v <= L.*)
(***************************************************************************)
IsFloorOf(L, v) == L * Hundredths <= v /\ v < (L + 1) * Hundredths
IsCeilOf(L, v) == (L - 1) * Hundredths < v /\ v <= L * Hundredths
Last(s) == s[Len(s)]

\* C8: for min <= max the level sequence starts at floor(min), rises by
\* exactly 2 from each entry to the next, and its last entry is >= ceil(max);
\* for min = -5.3 and max = 7.8 it starts at -6 and ends at 8 or above.
C8_LevelsCoverRange ==
    fint # None =>
        LET L == Get(fint)
            mn == Get(minTemp)
            mx == Get(maxTemp)
        IN  /\ mn <= mx
            /\ Len(L) >= 1
            /\ IsFloorOf(L[1], mn)
            /\ \A i \in 1..(Len(L) - 1) : L[i + 1] - L[i] = 2
            /\ \E c \in L[1]..Last(L) : IsCeilOf(c, mx)
            /\ (mn = 0 - 530 /\ mx = 780) => (L[1] = 0 - 6 /\ Last(L) >= 8)

C8_Witness ==
    /\ pc = "render" /\ minTemp = Some(0 - 530) /\ maxTemp = Some(780)
    /\ fint = Some(<<0 - 6, 0 - 4, 0 - 2, 0, 2, 4, 6, 8>>)

\* C9 as stated: ceil(max) itself is an entry of the level sequence, whatever
\* the parity of ceil(max) - floor(min).
C9_CeilMaxIsALevel ==
    fint # None =>
        \E i \in 1..Len(Get(fint)) : IsCeilOf(Get(fint)[i], Get(maxTemp))

\* C9 amended: the sequence starts at floor(min); ceil(max) is its last entry
\* when ceil(max) - floor(min) is even, and when that difference is odd
\* ceil(max) is no entry and the last entry is ceil(max) + 1.
C9_CeilMaxIsALevelWhenEven ==
    fint # None =>
        LET L == Get(fint)
            c == CHOOSE k \in (L[1] - 1)..(Last(L) + 2) : IsCeilOf(k, Get(maxTemp))
        IN  /\ Len(L) >= 1
            /\ IsFloorOf(L[1], Get(minTemp))
            /\ IF (c - L[1]) % 2 = 0
               THEN Last(L) = c
               ELSE /\ Last(L) = c + 1
                    /\ \A i \in 1..Len(L) : L[i] # c

C9_Witness ==
    /\ pc = "render" /\ minTemp = Some(50) /\ maxTemp = Some(250)
    /\ fint = Some(<<0, 2, 4>>)

\* C10: when min equals max, also at a whole number of degrees, the level
\* sequence holds at least two distinct levels, one <= the value and one >=
\* it; it is never a single level.
C10_EqualExtremesGiveTwoLevels ==
    (fint # None /\ minTemp = maxTemp) =>
        LET L == Get(fint)
        IN  /\ Len(L) >= 2
            /\ \E i, j \in 1..Len(L) :
                /\ L[i] # L[j]
                /\ L[i] * Hundredths <= Get(minTemp)
                /\ L[j] * Hundredths >= Get(minTemp)

(***************************************************************************)
(* Properties of the run as a whole.                                       *)
(***************************************************************************)
\* the cells in the order they run; an error ranks after all of them
Rank(p) ==
    CASE p = "urls" -> 1 [] p = "resolve" -> 2 [] p = "open" -> 3
      [] p = "projfetch" -> 4 [] p = "proj" -> 5 [] p = "extract" -> 6
      [] p = "convert" -> 7 [] p = "xy" -> 8 [] p = "quickplot" -> 9
      [] p = "lazymin" -> 10 [] p = "reduce" -> 11 [] p = "reduce_max" -> 12
      [] p = "levels" -> 13 [] p = "render" -> 14 [] p = "contourf" -> 15
      [] p = "done" -> 16 [] p = "error" -> 17

\* C11 as stated: no chunk data of the variable array is loaded at any step
\* before the forced min/max reduction (opening, assembly, extraction,
\* conversion, the quick-look plot and the unforced min() included); the
\* forced reduction is the first and only evaluation before rendering.
C11_ReductionIsFirstEvaluation ==
    /\ minTemp = None => loads = <<>>
    /\ (maxTemp # None /\ fig = None) => loads = <<"min", "max">>

\* C11 amended: opening, assembly, extraction, conversion and the unforced
\* min() load nothing; the quick-look plot is the first step that loads the
\* chunk data and the forced reduction, one load for min and one for max,
\* comes after it, so the array is evaluated before the reduction.
C11_QuickPlotThenReduction ==
    /\ Rank(pc) <= Rank("quickplot") => loads = <<>>
    /\ pc \in {"lazymin", "reduce"} => loads = <<"quickplot">>
    /\ pc = "reduce_max" => loads = <<"quickplot", "min">>
    /\ pc \in {"levels", "render", "contourf"} => loads = <<"quickplot", "min", "max">>
    /\ pc = "done" => loads = <<"quickplot", "min", "max", "render">>
    /\ minTemp # None => (Len(loads) >= 2 /\ loads[1] = "quickplot" /\ loads[2] = "min")
    /\ maxTemp # None => (Len(loads) >= 3 /\ loads[3] = "max")
    /\ minTemp = None => loads \in {<<>>, <<"quickplot">>}

C11_Witness ==
    /\ pc = "levels" /\ loads = <<"quickplot", "min", "max">>
    /\ minTemp # None /\ Get(airTemp).units = "degC"

\* the cells that read the variable array
UsesArray(p) == Rank(p) >= Rank("quickplot") /\ Rank(p) <= Rank("done")

GridValues == {grid[i] : i \in 1..Len(grid)}

C12_Uses ==
    /\ UsesArray(pc) => (airTemp # None /\ Get(airTemp).units = "degC")
    /\ minTemp # None => Get(minTemp) + KelvinOffset = Min(GridValues)
    /\ maxTemp # None => Get(maxTemp) + KelvinOffset = Max(GridValues)
    /\ fint # None => IsFloorOf(Get(fint)[1], Min(GridValues) - KelvinOffset)
    /\ (fig # None /\ Get(fig).field # None) => Get(Get(fig).field).units = "degC"

C12_Step ==
    airTemp' # airTemp =>
        \/ /\ pc = "extract" /\ airTemp = None /\ Get(airTemp').units = store.units
        \/ /\ pc = "convert" /\ airTemp # None /\ Get(airTemp).units = "K"
           /\ airTemp' = Some([name |-> Get(airTemp).name, units |-> "degC"])

\* C12: once extracted, the variable array changes exactly once, in the unit
\* conversion from kelvin to degrees Celsius, and that happens before the
\* quick-look plot, the reduction, the level derivation and the map; min, max
\* and the levels are in degrees Celsius.
C12_ConvertedOnceBeforeUse == []C12_Uses /\ [][C12_Step]_vars

C12_Witness ==
    /\ pc = "done" /\ Get(Get(fig).field).units = "degC"
    /\ grid[1] = 26785 /\ minTemp = Some(0 - 530) /\ Get(fint)[1] = 0 - 6

ErrorKinds ==
    {"PackageNotFoundError", "AttributeError", "ValueError", "ModuleNotFoundError",
     "FileNotFoundError", "ConnectionError", "DimensionalityError"} \cup MergeErrors

\* the map figure carries the filled contours and the colorbar
Rendered(f) == f.levels # None /\ f.field # None /\ f.colorbar

\* a run that has failed is at its end and holds no rendered map; what the map
\* cell and the quick-look cell leave behind is what they had made before
C13_Stopped ==
    /\ err # "none" <=> pc = "error"
    /\ err \in ErrorKinds \cup {"none"}
    /\ pc = "error" => (fig = None \/ ~Rendered(Get(fig)))
    /\ fig # None => pc \in {"contourf", "done", "error"} /\ fint # None
    /\ (fig # None /\ pc = "contourf") => ~Rendered(Get(fig))
    /\ (fig # None /\ pc = "done") => Rendered(Get(fig))
    /\ (fig # None /\ pc = "error") =>
           /\ Get(fig).levels = None /\ Get(fig).field = None /\ ~Get(fig).colorbar
           /\ err \in {"ValueError", "ConnectionError"}
    /\ quicklook # None =>
           /\ loads # <<>> /\ loads[1] = "quickplot"
           /\ Rank(pc) > Rank("quickplot")
    /\ (quicklook = None /\ pc = "error") => fig = None

\* a step is taken by a run that has not failed, it moves to a later cell, and
\* a step that fails makes or changes no figure
C13_Step ==
    /\ pc # "error"
    /\ Rank(pc') > Rank(pc)
    /\ pc' = "error" => (fig' = fig /\ quicklook' = quicklook)

\* C13: every error (version parse, connectivity, shape or coordinate
\* mismatch, unit incompatibility, rendering) is fail-fast.  Once a cell has
\* failed the run is over: the failed cell is not retried and no later cell
\* runs; every cell runs at most once, since each step moves to a later cell;
\* and no rendered figure is produced: the failing step makes or changes no
\* figure, no step follows it, and the map figure of a failed run, where the
\* map cell had made one, has no contours and no colorbar.  The quick-look
\* plot of a cell that completed before the failure stays as it was drawn.
C13_FailFast == []C13_Stopped /\ [][C13_Step]_vars

C13_Witness ==
    /\ pc = "error" /\ err = "ValueError"
    /\ loads = <<"quickplot", "min", "max", "render">> /\ Len(Get(fint)) = 1
    /\ quicklook # None /\ fig # None /\ ~Rendered(Get(fig))

\* the configured variable and level name a field the archive holds
FieldExists == <<Get(var), Get(level)>> \in ArchiveFields

\* C14: with a variable code the archive does not hold (date, hour and level
\* as before), dataset assembly fails with a not-found error, unless the
\* store cannot be reached at all or the zarr engine is not there; no combined
\* dataset is produced and no later cell runs.
C14_MissingVariableNotFound ==
    (var # None /\ ~FieldExists /\ Rank(pc) > Rank("open")) =>
        /\ pc = "error"
        /\ err \in ErrorKinds
        /\ (file1 # None /\ installed.importable) =>
               err \in {"FileNotFoundError", "ConnectionError"}
        /\ (file1 # None /\ ~installed.importable) => err = "ValueError"
        /\ (file1 = None) => err \in {"PackageNotFoundError", "AttributeError",
                                      "ValueError", "ModuleNotFoundError"}
        /\ ds = None /\ HRRR_proj = None /\ projData = None /\ airTemp = None
        /\ x = None /\ y = None /\ loads = <<>>
        /\ minTemp = None /\ maxTemp = None /\ fint = None /\ fig = None

C14_Witness ==
    /\ pc = "error" /\ err = "FileNotFoundError"
    /\ var = Some("XYZ") /\ level = Some(NotebookLevel) /\ date = Some(NotebookDate)
    /\ hour = Some(NotebookHour) /\ file1 # None /\ ds = None

Abs(n) == IF n < 0 THEN 0 - n ELSE n

\* f is a float32 no further than half a unit in the last place from the
\* value of t tenths, t > 0
NearestFloat32(f, t) ==
    /\ TwoTo(23) <= f.m /\ f.m < TwoTo(24)
    /\ IF f.e <= 0
       THEN 2 * Abs(10 * f.m - t * TwoTo(0 - f.e)) <= 10
       ELSE 2 * Abs(10 * f.m * TwoTo(f.e) - t) <= 10 * TwoTo(f.e)

C15_Data ==
    /\ projData # None =>
        /\ HRRR_proj # None
        /\ NearestFloat32(Get(projData).globe.semimajor_axis, Get(HRRR_proj).a)
        /\ NearestFloat32(Get(projData).globe.semiminor_axis, Get(HRRR_proj).b)
        /\ NearestFloat32(Get(projData).central_longitude, Get(HRRR_proj).lon_0)
        /\ NearestFloat32(Get(projData).central_latitude, Get(HRRR_proj).lat_0)
        /\ NearestFloat32(Get(projData).standard_parallels[1], Get(HRRR_proj).lat_1)
        /\ NearestFloat32(Get(projData).standard_parallels[2], Get(HRRR_proj).lat_2)
    /\ fint # None =>
        /\ Get(minTemp) = Min(GridValues) - KelvinOffset
        /\ Get(maxTemp) = Max(GridValues) - KelvinOffset
        /\ fint = Some(ContourLevels(Min(GridValues) - KelvinOffset,
                                      Max(GridValues) - KelvinOffset))
    /\ fig # None => Get(fig).projection = Get(projData)

C15_Step ==
    /\ pc \in {"projfetch", "proj"} =>
           UNCHANGED <<ds, airTemp, minTemp, maxTemp, fint, grid, x, y, loads>>
    /\ pc \notin {"projfetch", "proj"} => UNCHANGED <<HRRR_proj, projData>>

\* C15: projection reconstruction affects only rendering.  Fetching the
\* parameters and building the projection leave the dataset, the variable
\* array, min, max and the levels as they were; the levels are a function of
\* the array values alone, the same for every set of projection parameters;
\* and the globe is given both semi-axes from the fetched parameters, each
\* rounded to single precision.
C15_ProjectionOnlyRenders == []C15_Data /\ [][C15_Step]_vars

C15_Witness ==
    /\ pc = "done" /\ Get(HRRR_proj).a # Get(HRRR_proj).b
    /\ Get(HRRR_proj).b = 63567523
    /\ Get(fig).projection.globe.semiminor_axis = [m |-> 12713505, e |-> 0 - 1]
    /\ Len(Get(fint)) >= 2

(***************************************************************************)
(* The two branches of the resolver address the same objects.              *)
(***************************************************************************)
Scheme == "s3://"
Bucket == "hrrrzarr"

\* the handle h, built from the URL u, addresses the object u names
AddressesSame(h, u) ==
    /\ Len(u) > Len(Scheme) + Len(Bucket)
    /\ SubSeq(u, 1, Len(Scheme)) = Scheme
    /\ SubSeq(u, Len(Scheme) + 1, Len(Scheme) + Len(Bucket) + 1) = Bucket \o "/"
    /\ h.kind = "FsspecStore" =>
           /\ Len(h.path) = Len(u) - 5
           /\ Scheme \o h.path = u
           /\ SubSeq(h.path, 1, Len(Bucket) + 1) = Bucket \o "/"
    /\ h.kind = "S3Map" => h.path = u
    /\ StripProtocol(h.path) = SubSeq(u, Len(Scheme) + 1, Len(u))

\* C16: for every date, hour, variable and level, the path of a v3 handle is
\* the URL a legacy handle is given with exactly the five characters "s3://"
\* removed: it begins with the bucket name hrrrzarr and has the same key, so
\* the slice neither eats part of the bucket name nor leaves part of the
\* scheme, and both kinds of handle resolve to the same bucket and key.
C16_BranchesAddressSameObjects ==
    (file1 # None \/ file2 # None) =>
        /\ AddressesSame(Get(file1), Get(url1))
        /\ AddressesSame(Get(file2), Get(url2))
        /\ Get(file1).kind = Get(file2).kind

C16_Witness ==
    /\ pc = "open" /\ BranchTaken = "v3" /\ var = Some("DPT")
    /\ Get(url1) = "s3://hrrrzarr/sfc/20210215/20210215_00z_anl.zarr/"
                       \o "2m_above_ground/DPT/2m_above_ground"
    /\ Get(file1).path = "hrrrzarr/sfc/20210215/20210215_00z_anl.zarr/"
                       \o "2m_above_ground/DPT/2m_above_ground"
    /\ Get(file2).path = "hrrrzarr/sfc/20210215/20210215_00z_anl.zarr/"
                       \o "2m_above_ground/DPT"

(***************************************************************************)
(* The extraction cell and the configured variable code.                   *)
(***************************************************************************)
DataNames == {a.name : a \in {b \in Get(ds) : b.role = "data"}}

\* C17: the extraction cell asks the combined dataset for the variable named
\* TMP whatever variable code built the object paths.  With a configured
\* code other than TMP whose objects exist, the dataset opens holding only a
\* data variable of that name, the run stops at extraction with an
\* attribute-not-found error, and neither conversion nor rendering happens.
C17_ExtractionAlwaysRequestsTMP ==
    /\ airTemp # None => Get(airTemp).name = "TMP" /\ "TMP" \in DataNames
    /\ (ds # None /\ var # Some("TMP")) =>
        /\ FieldExists
        /\ DataNames = {Get(var)}
        /\ Rank(pc) <= Rank("extract") \/ pc = "error"
        /\ airTemp = None /\ x = None /\ y = None /\ loads = <<>>
        /\ minTemp = None /\ fint = None /\ fig = None
        /\ (pc = "error" /\ projData # None) => err = "AttributeError"
        /\ (pc = "error" /\ projData = None) => err = "ConnectionError"

C17_Witness ==
    /\ pc = "error" /\ err = "AttributeError" /\ var = Some("DPT")
    /\ ds # None /\ DataNames = {"DPT"} /\ projData # None /\ airTemp = None

(***************************************************************************)
(* The level sequence does not overshoot.                                  *)
(***************************************************************************)
\* C18: for min <= max the level sequence is non-empty; its last entry L has
\* ceil(max) <= L < ceil(max) + 2, so at most one level lies strictly above
\* ceil(max); and the number of levels is the smallest n with
\* floor(min) + 2n >= ceil(max) + 2.
C18_LevelsNeverOvershoot ==
    fint # None =>
        LET L == Get(fint)
            n == Len(L)
            mn == Get(minTemp)
            mx == Get(maxTemp)
        IN  /\ mn <= mx
            /\ n >= 1
            /\ \E c \in (L[1] - 1)..(Last(L) + 2) :
                   /\ IsCeilOf(c, mx)
                   /\ c <= Last(L) /\ Last(L) < c + 2
                   /\ Cardinality({i \in 1..n : L[i] > c}) <= 1
                   /\ \E f \in (L[1] - 2)..(L[1] + 2) :
                          /\ IsFloorOf(f, mn)
                          /\ f + 2 * n >= c + 2
                          /\ \A m \in 0..(n - 1) : f + 2 * m < c + 2

C18_Witness ==
    /\ pc = "render" /\ minTemp = Some(0 - 530) /\ maxTemp = Some(690)
    /\ Len(Get(fint)) = 8 /\ Last(Get(fint)) = 8

====
